---------------------------- MODULE Spec2Model ----------------------------
(***************************************************************************)
(* A model of the directed-inputs package: the three facades that hold or  *)
(* resolve inputs (DirectedInputs in inputs.py, DirectedInputsClass in     *)
(* directed_inputs_class.py, DirectedInputsSettings and StdinSettingsSource*)
(* in input.py) and the auto_directed_inputs wrapper of decorators.py.     *)
(*                                                                         *)
(* A run of the model is one process: Init builds the process environment  *)
(* (environment variables, OVERRIDE_STDIN, the text waiting on stdin, the   *)
(* dotenv and secret files) and constructs one facade; the actions are the *)
(* facade's public operations.                                             *)
(*                                                                         *)
(* Reading notes on the source, which the model follows:                   *)
(*  - inputs.py line 72 (`self.update_custom_inp`) is a truncated statement*)
(*    that stores nothing: DirectedInputs.__init__ never keeps from_inputs.*)
(*  - inputs.py _add_field_to_model and _refresh_active_state are `pass`.  *)
(*  - no statement of input.py assigns DirectedInputsSettings._inputs, so  *)
(*    it keeps its default_factory value, the empty dict.                  *)
(*  - settings_customise_sources is a classmethod and reads cls.from_*,    *)
(*    the class-level declarations of input.py lines 62-63.                *)
(*  - the import statements are not modelled: a name a module uses stands  *)
(*    for the definition of that name in the package or its libraries      *)
(*    (input.py uses the classes of decoding_types.py without importing    *)
(*    them).                                                               *)
(*  - CaseInsensitiveDict is a MutableMapping, not a dict subclass, so the *)
(*    Merger of inputs.py lines 66-70 finds no type strategy for it and    *)
(*    applies its fallback strategy, "override".                           *)
(***************************************************************************)
EXTENDS Naturals, Sequences, FiniteSets, TLC

VARIABLES
    environ,          \* os.environ (without OVERRIDE_STDIN)
    override_stdin,   \* strtobool(os.getenv("OVERRIDE_STDIN", "False"))
    stdin,            \* the text sys.stdin.read() returns next
    stdin_reads,      \* number of sys.stdin.read() calls so far
    dotenv,           \* what the dotenv source yields
    file_secrets,     \* what the file-secret source yields
    obj,              \* the facade this process constructed
    from_inputs,      \* the initialization mapping passed to the constructor
    from_environment, \* instance flag
    from_stdin,       \* instance flag
    case_sensitive,   \* DirectedInputs.case_sensitive
    heap,             \* the dict objects of a DirectedInputs, by reference
    _active_state,    \* DirectedInputs._active_state (a reference)
    _frozen_state,    \* DirectedInputs._frozen_state (a reference)
    inputs_cache,     \* lru_cache(maxsize=1) of DirectedInputs.inputs
    _inputs,          \* DirectedInputsClass._inputs
    _frozen_inputs,   \* DirectedInputsClass._frozen_inputs
    settings_inputs,  \* DirectedInputsSettings._inputs
    last              \* the last operation: name, arguments, state before, result

vars == <<environ, override_stdin, stdin, stdin_reads, dotenv, file_secrets,
          obj, from_inputs, from_environment, from_stdin, case_sensitive,
          heap, _active_state, _frozen_state, inputs_cache,
          _inputs, _frozen_inputs, settings_inputs, last>>

(***************************************************************************)
(* Bounds of the model.                                                    *)
(***************************************************************************)
\* sys.stdin.read() calls counted before the model stops reading
MaxReads == 2

(***************************************************************************)
(* Values.                                                                 *)
(***************************************************************************)
Keys == {"a", "A", "b"}

\* values a caller passes (constructor mapping, inputs setter, call kwargs)
Values == {"x", "y"}

\* A python value is denoted by a string: a str by itself, any other value by
\* its repr between angle brackets ("<int 10>", "<True>", "<dict {}>").
None == "<None>"

True == "<True>"

False == "<False>"

EmptyMap == [k \in {} |-> None]

Map1(k, v) == [j \in {k} |-> v]

\* str.casefold(), also the key normalisation of CaseInsensitiveDict
CaseFold(k) == IF k = "A" THEN "a" ELSE k

\* dict.update(other)
Update(base, other) ==
    [k \in DOMAIN base \cup DOMAIN other |->
        IF k \in DOMAIN other THEN other[k] ELSE base[k]]

\* CaseInsensitiveDict(initial): the entries under their folded keys
Fold(m) ==
    [f \in {CaseFold(k) : k \in DOMAIN m} |->
        m[CHOOSE k \in DOMAIN m : CaseFold(k) = f]]

\* is_nothing(v) for a mapping: it equals {}
is_nothing(m) == DOMAIN m = {}

\* is_nothing(v) for a value that is no mapping of the model: None, "", {}
\* and [] are nothing
is_nothing_value(v) == v \in {None, "", "<dict {}>", "<list []>"}

\* whether text `part` occurs in text `msg`
Contains(msg, part) ==
    \E i \in 1..(Len(msg) + 1) :
        /\ i + Len(part) - 1 <= Len(msg)
        /\ SubSeq(msg, i, i + Len(part) - 1) = part

(***************************************************************************)
(* Standard input: texts, and json decoding of a text.                     *)
(***************************************************************************)
StdinTexts == {"", "{\"a\": \"s\"}", "oops"}

\* json.loads / decode_json on the texts of the model; exc is the text of
\* the JSONDecodeError
json_loads(text) ==
    IF text = "{\"a\": \"s\"}"
    THEN [ok |-> TRUE, doc |-> Map1("a", "s"), exc |-> ""]
    ELSE [ok |-> FALSE, doc |-> EmptyMap,
          exc |-> "Expecting value: line 1 column 1 (char 0)"]

\* sys.stdin.read(): the whole text; the stream is then at end of file
stdin_read(text, reads) == [data |-> text, stdin |-> "", reads |-> reads + 1]

(***************************************************************************)
(* DirectedInputs (inputs.py): dictionaries live on a heap because         *)
(* _create_dict returns its argument itself when case_sensitive is set.    *)
(***************************************************************************)
Refs == {"r1", "r2", "r3", "r4"}

\* a fresh dict object
NewRef(used) == CHOOSE r \in Refs : r \notin used

\* _create_dict(initial): CaseInsensitiveDict(initial), a new object, unless
\* case_sensitive, and then `initial` itself
_create_dict(cs, h, used, initial) ==
    IF cs
    THEN [ref |-> initial, heap |-> h]
    ELSE LET n == NewRef(used)
         IN  [ref |-> n, heap |-> [h EXCEPT ![n] = Fold(h[initial])]]

\* the Merger's fallback strategy for two values no type strategy covers
MergeValue(base, nxt) == nxt

\* the Merger's dict strategy "merge": nxt's entries are merged into base
DictMerge(base, nxt) ==
    [k \in DOMAIN base \cup DOMAIN nxt |->
        IF k \notin DOMAIN nxt THEN base[k]
        ELSE IF k \notin DOMAIN base THEN nxt[k]
        ELSE MergeValue(base[k], nxt[k])]

\* _inputs_merger.merge(base, nxt) on two dict objects of the store: plain
\* dicts are merged in place into base; CaseInsensitiveDicts fall to "override"
merger_merge(cs, h, base, nxt) ==
    IF cs
    THEN [ref |-> base, heap |-> [h EXCEPT ![base] = DictMerge(h[base], h[nxt])]]
    ELSE [ref |-> nxt, heap |-> h]

\* objects no attribute refers to any more are dropped, and the two that
\* remain are renamed: only whether the attributes share an object matters
Collect(s) ==
    IF s.active = s.frozen
    THEN [heap   |-> [r \in Refs |->
                        IF r = "r1" THEN s.heap[s.active] ELSE EmptyMap],
          active |-> "r1",
          frozen |-> "r1"]
    ELSE [heap   |-> [r \in Refs |->
                        IF r = "r1" THEN s.heap[s.active]
                        ELSE IF r = "r2" THEN s.heap[s.frozen]
                        ELSE EmptyMap],
          active |-> "r1",
          frozen |-> "r2"]

\* the store as a record
Store == [heap |-> heap, active |-> _active_state, frozen |-> _frozen_state]

freeze_unguarded(cs, s) ==
    LET c == _create_dict(cs, s.heap, {s.active, s.frozen}, s.active)
    IN  Collect([heap   |-> [c.heap EXCEPT ![s.active] = EmptyMap],
                 active |-> s.active,
                 frozen |-> c.ref])

\* DirectedInputs.freeze
freeze(cs, s) ==
    IF is_nothing(s.heap[s.frozen])
    THEN LET c == _create_dict(cs, s.heap, {s.active, s.frozen}, s.active)
         IN  Collect([heap   |-> [c.heap EXCEPT ![s.active] = EmptyMap],
                      active |-> s.active,
                      frozen |-> c.ref])
    ELSE s

thaw_keeps_frozen(cs, s) ==
    IF is_nothing(s.heap[s.active])
    THEN LET c == _create_dict(cs, s.heap, {s.active, s.frozen}, s.frozen)
         IN  Collect([heap   |-> c.heap,
                      active |-> c.ref,
                      frozen |-> s.frozen])
    ELSE LET b == _create_dict(cs, s.heap, {s.active, s.frozen}, s.active)
             n == _create_dict(cs, b.heap, {s.active, s.frozen, b.ref}, s.frozen)
             m == merger_merge(cs, n.heap, b.ref, n.ref)
         IN  Collect([heap   |-> m.heap,
                      active |-> m.ref,
                      frozen |-> s.frozen])

\* DirectedInputs.thaw
thaw(cs, s) ==
    IF is_nothing(s.heap[s.active])
    THEN LET c == _create_dict(cs, s.heap, {s.active, s.frozen}, s.frozen)
         IN  Collect([heap   |-> [c.heap EXCEPT ![s.frozen] = EmptyMap],
                      active |-> c.ref,
                      frozen |-> s.frozen])
    ELSE LET b == _create_dict(cs, s.heap, {s.active, s.frozen}, s.active)
             n == _create_dict(cs, b.heap, {s.active, s.frozen, b.ref}, s.frozen)
             m == merger_merge(cs, n.heap, b.ref, n.ref)
         IN  Collect([heap   |-> [m.heap EXCEPT ![s.frozen] = EmptyMap],
                      active |-> m.ref,
                      frozen |-> s.frozen])

\* DirectedInputs.shift
shift(cs, s) ==
    IF is_nothing(s.heap[s.frozen]) THEN freeze(cs, s) ELSE thaw(cs, s)

(***************************************************************************)
(* DirectedInputsClass (directed_inputs_class.py): plain dicts, deep       *)
(* copies, so values suffice.                                              *)
(***************************************************************************)
\* DirectedInputsSettings(**inputs).dict(): the two declared fields and the
\* initialization entries
settings_dict(init, env_flag, stdin_flag) ==
    Update(Update(Map1("from_environment", env_flag),
                  Map1("from_stdin", stdin_flag)), init)

\* the facade as a record
Dic == [inputs |-> _inputs, frozen |-> _frozen_inputs]

\* DirectedInputsClass.freeze_inputs
freeze_inputs(d) ==
    IF is_nothing(d.frozen)
    THEN [inputs |-> EmptyMap, frozen |-> d.inputs]
    ELSE d

thaw_inputs_drops_frozen(d) ==
    IF is_nothing(d.inputs)
    THEN [inputs |-> EmptyMap, frozen |-> EmptyMap]
    ELSE [inputs |-> DictMerge(d.inputs, d.frozen), frozen |-> EmptyMap]

\* DirectedInputsClass.thaw_inputs
thaw_inputs(d) ==
    IF is_nothing(d.inputs)
    THEN [inputs |-> d.frozen, frozen |-> EmptyMap]
    ELSE [inputs |-> DictMerge(d.inputs, d.frozen), frozen |-> EmptyMap]

\* DirectedInputsClass.shift_inputs
shift_inputs(d) ==
    IF is_nothing(d.frozen) THEN freeze_inputs(d) ELSE thaw_inputs(d)

(***************************************************************************)
(* DirectedInputsSettings and StdinSettingsSource (input.py).              *)
(***************************************************************************)
\* the class-level declarations settings_customise_sources reads through cls
cls_from_environment == TRUE

cls_from_stdin == FALSE

\* DirectedInputsSettings.settings_customise_sources: the sources, in the
\* order of the list, without the None entries
settings_customise_sources ==
    (IF cls_from_environment THEN <<"env_settings">> ELSE <<>>)
    \o (IF cls_from_stdin THEN <<"StdinSettingsSource">> ELSE <<>>)
    \o <<"init_settings", "dotenv_settings", "file_secret_settings">>

\* StdinSettingsSource.__call__
StdinSettingsSource_call(override, text, reads) ==
    IF override
    THEN [d |-> EmptyMap, stdin |-> text, reads |-> reads, raised |-> ""]
    ELSE LET r == stdin_read(text, reads)
             j == json_loads(r.data)
         IN  IF is_nothing_value(r.data)
             THEN [d |-> EmptyMap, stdin |-> r.stdin, reads |-> r.reads,
                   raised |-> ""]
             ELSE IF j.ok
             THEN [d |-> j.doc, stdin |-> r.stdin, reads |-> r.reads,
                   raised |-> ""]
             ELSE [d |-> EmptyMap, stdin |-> r.stdin, reads |-> r.reads,
                   raised |-> "Failed to decode stdin:\n" \o r.data]

\* the texts int() accepts, among the texts of the model
IntLiterals == {"0", "1", "10"}

\* the texts float() accepts and int() does not
FloatLiterals == {"1.5"}

\* extended_data_types.strtobool(val), raise_on_error left at False: a bool
\* or None is returned as it is, a text by its lower-case spelling, and any
\* other text gives None
strtobool(val) ==
    CASE val \in {None, True, False} -> val
      [] val \in {"y", "yes", "t", "true", "True", "on", "1"} -> True
      [] val \in {"n", "no", "f", "false", "False", "off", "0"} -> False
      [] OTHER -> None

\* int(inp): ok is FALSE where python raises TypeError or ValueError
int_(inp) ==
    CASE inp \in IntLiterals -> [ok |-> TRUE, value |-> "<int " \o inp \o ">"]
      [] inp = True -> [ok |-> TRUE, value |-> "<int 1>"]
      [] inp = False -> [ok |-> TRUE, value |-> "<int 0>"]
      [] OTHER -> [ok |-> FALSE, value |-> None]

\* float(inp): ok is FALSE where python raises TypeError or ValueError
float_(inp) ==
    CASE inp \in IntLiterals -> [ok |-> TRUE, value |-> "<float " \o inp \o ".0>"]
      [] inp \in FloatLiterals -> [ok |-> TRUE, value |-> "<float " \o inp \o ">"]
      [] inp \in {"<int " \o n \o ">" : n \in IntLiterals} ->
            [ok |-> TRUE,
             value |-> "<float " \o SubSeq(inp, 6, Len(inp) - 1) \o ".0>"]
      [] inp = True -> [ok |-> TRUE, value |-> "<float 1.0>"]
      [] inp = False -> [ok |-> TRUE, value |-> "<float 0.0>"]
      [] OTHER -> [ok |-> FALSE, value |-> None]

\* the coercion flags of get_input, all False by default
NoFlags == [is_bool |-> FALSE, is_integer |-> FALSE, is_float |-> FALSE]

\* DirectedInputsSettings.get_input (the message of the last raise goes on
\* with a print of _inputs, which the model leaves out)
get_input(inputs, key, default, required, flags) ==
    LET found == IF CaseFold(key) \in DOMAIN inputs
                 THEN inputs[CaseFold(key)] ELSE default
        inp1  == IF is_nothing_value(found) THEN default ELSE found
        inp2  == IF flags.is_bool THEN strtobool(inp1) ELSE inp1
        toint == flags.is_integer /\ inp2 # None
        inp3  == IF toint /\ int_(inp2).ok THEN int_(inp2).value ELSE inp2
        toflt == flags.is_float /\ inp3 # None
        inp4  == IF toflt /\ float_(inp3).ok THEN float_(inp3).value ELSE inp3
    IN  IF toint /\ ~int_(inp2).ok
        THEN [raised |-> "Input " \o key \o " not an integer: " \o inp2,
              value |-> None]
        ELSE IF toflt /\ ~float_(inp3).ok
        THEN [raised |-> "Input " \o key \o " not a float: " \o inp3,
              value |-> None]
        ELSE IF is_nothing_value(inp4) /\ required
        THEN [raised |-> "Required input " \o key \o " not passed from inputs",
              value |-> None]
        ELSE [raised |-> "", value |-> inp4]

(***************************************************************************)
(* DirectedInputsSettings.decode_input (input.py) and the library calls it *)
(* makes, on the texts of the model.                                       *)
(***************************************************************************)
\* the classes of decoding_types.py, each a direct subclass of str
DecodeTypes ==
    {"JSONDecoded", "YAMLDecoded", "Base64Decoded", "JSONAndBase64Decoded",
     "YAMLAndBase64Decoded", "JSONWithoutBase64Decoded",
     "YAMLWithoutBase64Decoded"}

\* issubclass(decode_type, classes): no class of decoding_types.py derives
\* from another
issubclass(decode_type, classes) == decode_type \in classes

decode_flags_adds_to_callers(decode_type, flags) ==
    [decode_from_json |->
        flags.decode_from_json \/
        issubclass(decode_type, {"JSONDecoded", "JSONAndBase64Decoded",
                                 "JSONWithoutBase64Decoded"}),
     decode_from_yaml |->
        flags.decode_from_yaml \/
        issubclass(decode_type, {"YAMLDecoded", "YAMLAndBase64Decoded",
                                 "YAMLWithoutBase64Decoded"}),
     decode_from_base64 |->
        flags.decode_from_base64 \/
        issubclass(decode_type, {"Base64Decoded", "JSONAndBase64Decoded",
                                 "YAMLAndBase64Decoded"})]

\* the decode flags decode_input works with: those of the decode type when
\* one is given, the caller's otherwise
decode_flags(decode_type, flags) ==
    IF decode_type # None
    THEN [decode_from_json |->
              issubclass(decode_type, {"JSONDecoded", "JSONAndBase64Decoded",
                                       "JSONWithoutBase64Decoded"}),
          decode_from_yaml |->
              issubclass(decode_type, {"YAMLDecoded", "YAMLAndBase64Decoded",
                                       "YAMLWithoutBase64Decoded"}),
          decode_from_base64 |->
              issubclass(decode_type, {"Base64Decoded", "JSONAndBase64Decoded",
                                       "YAMLAndBase64Decoded"})]
    ELSE flags

\* base64.b64decode(text).decode("utf-8"): characters outside the alphabet
\* are discarded, a wrong length is a binascii.Error
b64decode(text) ==
    CASE text = "eyJuYW1lIjogInRlc3QifQ==" ->
            [raised |-> "", value |-> "{\"name\": \"test\"}"]
      [] text = "bmFtZTogdGVzdA==" -> [raised |-> "", value |-> "name: test"]
      [] text = "bnVsbA==" -> [raised |-> "", value |-> "null"]
      [] text = "{}" -> [raised |-> "", value |-> ""]
      [] text \in {"true", "null", "name: test", "{\"name\": \"test\"}"} ->
            [raised |-> "UnicodeDecodeError", value |-> None]
      [] OTHER -> [raised |-> "binascii.Error", value |-> None]

\* extended_data_types.decode_json(data): a text is parsed; anything else, a
\* parsed structure too, is refused with a JSONDecodeError
decode_json(data) ==
    CASE data = "{\"name\": \"test\"}" ->
            [raised |-> "", value |-> "<dict {'name': 'test'}>"]
      [] data = "{}" -> [raised |-> "", value |-> "<dict {}>"]
      [] data = "null" -> [raised |-> "", value |-> None]
      [] data = "true" -> [raised |-> "", value |-> True]
      [] data = "10" -> [raised |-> "", value |-> "<int 10>"]
      [] data = "1.5" -> [raised |-> "", value |-> "<float 1.5>"]
      [] OTHER -> [raised |-> "JSONDecodeError", value |-> None]

\* whether a value of the model is a python str
isstr(v) == v = "" \/ SubSeq(v, 1, 1) # "<"

\* extended_data_types.decode_yaml(data): a text is parsed, a plain scalar
\* giving itself; a parsed structure has no read() for the yaml reader
decode_yaml(data) ==
    CASE data \in {"{\"name\": \"test\"}", "name: test"} ->
            [raised |-> "", value |-> "<dict {'name': 'test'}>"]
      [] data = "{}" -> [raised |-> "", value |-> "<dict {}>"]
      [] data \in {"null", ""} -> [raised |-> "", value |-> None]
      [] data = "true" -> [raised |-> "", value |-> True]
      [] data = "10" -> [raised |-> "", value |-> "<int 10>"]
      [] data = "1.5" -> [raised |-> "", value |-> "<float 1.5>"]
      [] data = "a: b: c" -> [raised |-> "YAMLError", value |-> None]
      [] ~isstr(data) -> [raised |-> "AttributeError", value |-> None]
      [] OTHER -> [raised |-> "", value |-> data]

\* extended_data_types.base64_decode(conf, unwrap_raw_data, encoding): the
\* decoded text, parsed by `encoding` when unwrap_raw_data is set
base64_decode(conf, unwrap_raw_data, encoding) ==
    LET d == b64decode(conf)
        u == IF encoding = "json" THEN decode_json(d.value)
             ELSE decode_yaml(d.value)
    IN  IF d.raised # "" THEN [raised |-> d.raised, value |-> None, steps |-> <<>>]
        ELSE IF unwrap_raw_data
        THEN [raised |-> u.raised, value |-> u.value,
              steps |-> <<"decode_" \o encoding>>]
        ELSE [raised |-> "", value |-> d.value, steps |-> <<>>]

\* the decode flags of decode_input, all False by default
NoDecode == [decode_from_json |-> FALSE, decode_from_yaml |-> FALSE,
             decode_from_base64 |-> FALSE]

\* decode_input, lines 208-217: the base64 step. steps lists the library
\* calls made, in order.
base64_step(conf, f) ==
    IF f.decode_from_base64
    THEN LET b == base64_decode(conf,
                      f.decode_from_json \/ f.decode_from_yaml,
                      IF f.decode_from_json THEN "json" ELSE "yaml")
         IN  [raised |-> IF b.raised = "binascii.Error"
                         THEN "Failed to decode " \o conf \o " from base64"
                         ELSE b.raised,
              value |-> b.value,
              steps |-> <<"base64_decode">> \o b.steps]
    ELSE [raised |-> "", value |-> conf, steps |-> <<>>]

\* decode_input, lines 228-239: the yaml or json step on what the base64
\* step left. (base64_decode returns a text or a parsed value, so the bytes
\* branches of lines 219-226 are not taken.)
parse_step(b, f) ==
    IF f.decode_from_yaml
    THEN LET p == decode_yaml(b.value)
         IN  [raised |-> IF p.raised = "YAMLError"
                         THEN "Failed to decode " \o b.value \o " from YAML"
                         ELSE p.raised,
              value |-> p.value,
              steps |-> b.steps \o <<"decode_yaml">>]
    ELSE IF f.decode_from_json
    THEN LET p == decode_json(b.value)
         IN  [raised |-> IF p.raised = "JSONDecodeError"
                         THEN "Failed to decode " \o b.value \o " from JSON"
                         ELSE p.raised,
              value |-> p.value,
              steps |-> b.steps \o <<"decode_json">>]
    ELSE b

decode_steps_returns_none(conf, default, f, allow_none) ==
    LET b == base64_step(conf, f)
    IN  IF b.raised # ""
        THEN [raised |-> b.raised, value |-> None, steps |-> b.steps,
              flags |-> f]
        ELSE LET p == parse_step(b, f)
             IN  IF p.raised # ""
                 THEN [raised |-> p.raised, value |-> None, steps |-> p.steps,
                       flags |-> f]
                 ELSE [raised |-> "", value |-> p.value,
                       steps |-> p.steps, flags |-> f]

\* decode_input, lines 207-244: the steps in their order, each ending the
\* call when it raises, and the allow_none substitution
decode_steps(conf, default, f, allow_none) ==
    LET b == base64_step(conf, f)
    IN  IF b.raised # ""
        THEN [raised |-> b.raised, value |-> None, steps |-> b.steps,
              flags |-> f]
        ELSE LET p == parse_step(b, f)
             IN  IF p.raised # ""
                 THEN [raised |-> p.raised, value |-> None, steps |-> p.steps,
                       flags |-> f]
                 ELSE [raised |-> "",
                       value |-> IF p.value = None /\ ~allow_none
                                 THEN default ELSE p.value,
                       steps |-> p.steps, flags |-> f]

decode_input_eager(inputs, key, default, required, flags, allow_none, decode_type) ==
    LET f == decode_flags(decode_type, flags)
        g == get_input(inputs, key, default, required, NoFlags)
    IN  IF g.raised # ""
        THEN [raised |-> g.raised, value |-> None, steps |-> <<>>, flags |-> f]
        ELSE IF g.value = None
        THEN [raised |-> "", value |-> g.value, steps |-> <<>>, flags |-> f]
        ELSE decode_steps(g.value, default, f, allow_none)

\* DirectedInputsSettings.decode_input. flags are the decode flags after the
\* decode type was looked at.
decode_input(inputs, key, default, required, flags, allow_none, decode_type) ==
    LET f == decode_flags(decode_type, flags)
        g == get_input(inputs, key, default, required, NoFlags)
    IN  IF g.raised # ""
        THEN [raised |-> g.raised, value |-> None, steps |-> <<>>, flags |-> f]
        ELSE IF g.value = None \/ g.value = default
        THEN [raised |-> "", value |-> g.value, steps |-> <<>>, flags |-> f]
        ELSE decode_steps(g.value, default, f, allow_none)

(***************************************************************************)
(* DirectedInputs.inputs and DirectedInputs.get (inputs.py).               *)
(***************************************************************************)
\* DirectedInputs._read_from_stdin: data is the decoded document, EmptyMap
\* standing for the None of a blank text
_read_from_stdin(text, reads) ==
    LET r == stdin_read(text, reads)
        j == json_loads(r.data)
    IN  IF is_nothing_value(r.data)
        THEN [data |-> EmptyMap, stdin |-> r.stdin, reads |-> r.reads,
              raised |-> ""]
        ELSE IF j.ok
        THEN [data |-> j.doc, stdin |-> r.stdin, reads |-> r.reads,
              raised |-> ""]
        ELSE [data |-> EmptyMap, stdin |-> r.stdin, reads |-> r.reads,
              raised |-> "Failed to decode stdin data: " \o j.exc]

\* a mapping as the store's kind of dict holds it
AsDict(cs, m) == IF cs THEN m ELSE Fold(m)

\* the body of the inputs property (what runs on a cache miss)
inputs_body(cs, env_flag, stdin_flag, env, text, reads, active) ==
    LET c1 == IF env_flag THEN AsDict(cs, env) ELSE EmptyMap
        r  == IF stdin_flag
              THEN _read_from_stdin(text, reads)
              ELSE [data |-> EmptyMap, stdin |-> text, reads |-> reads,
                    raised |-> ""]
        c2 == Update(c1, AsDict(cs, r.data))
        c3 == IF is_nothing(active) THEN c2 ELSE Update(c2, active)
    IN  [value |-> c3, stdin |-> r.stdin, reads |-> r.reads,
         raised |-> r.raised]

\* DirectedInputs.get: the two calls on a miss are placeholders, and nothing
\* else reads `required` or `input_type`
get(cs, active, key, default, required) ==
    LET k == IF cs THEN key ELSE CaseFold(key)
    IN  IF k \in DOMAIN active THEN active[k] ELSE default

(***************************************************************************)
(* auto_directed_inputs.wrapper (decorators.py).                           *)
(***************************************************************************)
\* the decorated method's parameters: f(self, a: str = None, b: str = None)
Params == {"a", "b"}

\* source(): what one source of the sequence yields
source_call(src, p, acc) ==
    CASE src = "env_settings" ->
            [d |-> Fold(p.environ), stdin |-> acc.stdin, reads |-> acc.reads,
             raised |-> ""]
      [] src = "StdinSettingsSource" ->
            StdinSettingsSource_call(p.override, acc.stdin, acc.reads)
      [] src = "init_settings" ->
            [d |-> p.kwargs, stdin |-> acc.stdin, reads |-> acc.reads,
             raised |-> ""]
      [] src = "dotenv_settings" ->
            [d |-> p.dotenv, stdin |-> acc.stdin, reads |-> acc.reads,
             raised |-> ""]
      [] src = "file_secret_settings" ->
            [d |-> p.file_secrets, stdin |-> acc.stdin, reads |-> acc.reads,
             raised |-> ""]

RECURSIVE combine_sources(_, _, _)
\* for source in sources: combined_settings.update(source())
combine_sources(sources, p, acc) ==
    IF sources = <<>> \/ acc.raised # ""
    THEN acc
    ELSE LET r == source_call(Head(sources), p, acc)
         IN  combine_sources(Tail(sources), p,
                [combined |-> Update(acc.combined, r.d), stdin |-> r.stdin,
                 reads |-> r.reads, raised |-> r.raised])

\* the wrapper up to the call of the wrapped function: the sources of
\* settings_customise_sources combined, validated against the parameters,
\* each argument then passed through decode_input on self, with no decode
\* type (the parameters are annotated str)
wrapper(p, self_inputs) ==
    LET acc  == combine_sources(settings_customise_sources, p,
                    [combined |-> EmptyMap, stdin |-> p.stdin,
                     reads |-> p.reads, raised |-> ""])
        bound == [k \in Params |->
                    IF k \in DOMAIN acc.combined THEN acc.combined[k] ELSE None]
        args == [k \in Params |->
                    decode_input(self_inputs, k, bound[k], bound[k] # None,
                                 NoDecode, TRUE, None).value]
    IN  [combined |-> acc.combined, args |-> args, stdin |-> acc.stdin,
         reads |-> acc.reads, raised |-> acc.raised]

(***************************************************************************)
(* The state machine.                                                      *)
(***************************************************************************)
\* what the environment, the files, the constructor and the callers supply:
\* each source marks its values, so a merged value names its source
EnvChoices == {EmptyMap, Map1("A", "e")}

DotenvChoices == {EmptyMap, Map1("a", "d")}

SecretChoices == {EmptyMap, Map1("a", "f")}

InputDicts == {EmptyMap, Map1("a", "x"), Map1("A", "y"), Map1("b", "x")}

Defaults == {None, "dflt"}

\* a decorator argument: absent (None) or a flag
OptionalFlags == {<<>>, <<TRUE>>, <<FALSE>>}

\* the mappings a facade holds, whichever facade it is
Active ==
    CASE obj = "DirectedInputs" -> heap[_active_state]
      [] obj = "DirectedInputsClass" -> _inputs
      [] OTHER -> settings_inputs

Frozen ==
    CASE obj = "DirectedInputs" -> heap[_frozen_state]
      [] obj = "DirectedInputsClass" -> _frozen_inputs
      [] OTHER -> EmptyMap

NoOp == [op |-> "", arg |-> <<>>, active |-> EmptyMap, frozen |-> EmptyMap,
         ret |-> <<>>, raised |-> ""]

\* the record of an operation: its name and arguments, the mappings before
\* it, what it returned or raised
Op(name, arg, ret, raised) ==
    [op |-> name, arg |-> arg, active |-> Active, frozen |-> Frozen,
     ret |-> ret, raised |-> raised]

Record(o) == last' = o

\* the facades that can come to read stdin: a DirectedInputs built with
\* from_stdin, and the settings facade, whose stdin source can be invoked
Reads ==
    \/ obj = "DirectedInputsSettings"
    \/ obj = "DirectedInputs" /\ from_stdin

Init ==
    /\ obj \in {"DirectedInputs", "DirectedInputsClass", "DirectedInputsSettings"}
    /\ from_environment \in BOOLEAN
    /\ from_stdin \in BOOLEAN
    /\ environ \in (IF obj = "DirectedInputsSettings" THEN EnvChoices
                    ELSE {Map1("A", "e")})
    /\ override_stdin \in (IF Reads THEN BOOLEAN ELSE {FALSE})
    /\ stdin \in (IF Reads THEN StdinTexts ELSE {"{\"a\": \"s\"}"})
    /\ stdin_reads = 0
    /\ dotenv \in (IF obj = "DirectedInputsSettings" THEN DotenvChoices
                   ELSE {EmptyMap})
    /\ file_secrets \in (IF obj = "DirectedInputsSettings" THEN SecretChoices
                         ELSE {EmptyMap})
    /\ from_inputs \in (IF obj = "DirectedInputsClass" THEN InputDicts
                        ELSE {Map1("b", "x")})
    /\ case_sensitive \in (IF obj = "DirectedInputs" THEN BOOLEAN ELSE {FALSE})
    /\ heap = [r \in Refs |-> EmptyMap]
    /\ _active_state = "r1"
    /\ _frozen_state = "r2"
    /\ inputs_cache = <<>>
    /\ _inputs = IF obj = "DirectedInputsClass"
                 THEN settings_dict(from_inputs, from_environment, from_stdin)
                 ELSE EmptyMap
    /\ _frozen_inputs = EmptyMap
    /\ settings_inputs = EmptyMap
    /\ last = NoOp

process == <<environ, override_stdin, dotenv, file_secrets, obj, from_inputs,
             from_environment, from_stdin, case_sensitive>>

store == <<heap, _active_state, _frozen_state>>

dic == <<_inputs, _frozen_inputs>>

SetStore(s) ==
    /\ heap' = s.heap
    /\ _active_state' = s.active
    /\ _frozen_state' = s.frozen

\* DirectedInputs.inputs = value, value a dict
SetInputs ==
    /\ obj = "DirectedInputs"
    /\ \E value \in InputDicts \ {EmptyMap} :
          /\ heap' = [heap EXCEPT ![_active_state] =
                          Update(@, AsDict(case_sensitive, value))]
          /\ Record(Op("inputs.setter", <<value>>, <<>>, ""))
    /\ UNCHANGED <<process, stdin, stdin_reads, _active_state, _frozen_state,
                   inputs_cache, dic, settings_inputs>>

\* DirectedInputs.inputs, read through lru_cache(maxsize=1)
ReadInputs ==
    /\ obj = "DirectedInputs"
    /\ IF inputs_cache # <<>>
       THEN /\ Record(Op("inputs", <<>>, inputs_cache, ""))
            /\ UNCHANGED <<stdin, stdin_reads, inputs_cache>>
       ELSE LET r == inputs_body(case_sensitive, from_environment, from_stdin,
                                 environ, stdin, stdin_reads, Active)
            IN  /\ r.reads <= MaxReads
                /\ stdin' = r.stdin
                /\ stdin_reads' = r.reads
                /\ inputs_cache' = IF r.raised = "" THEN <<r.value>> ELSE <<>>
                /\ Record(Op("inputs", <<>>,
                             IF r.raised = "" THEN <<r.value>> ELSE <<>>,
                             r.raised))
    /\ UNCHANGED <<process, store, dic, settings_inputs>>

Get_refreshes_state ==
    /\ obj = "DirectedInputs"
    /\ \E key \in Keys, default \in Defaults, required \in BOOLEAN :
          /\ heap' = IF (IF case_sensitive THEN key ELSE CaseFold(key))
                            \in DOMAIN Active
                     THEN heap
                     ELSE [heap EXCEPT ![_active_state] =
                              AsDict(case_sensitive, environ)]
          /\ Record(Op("get", <<key, default, required, NoFlags>>,
                       <<get(case_sensitive, Active, key, default, required)>>,
                       ""))
    /\ UNCHANGED <<process, stdin, stdin_reads, _active_state, _frozen_state,
                   inputs_cache, dic, settings_inputs>>

\* DirectedInputs.get(key, default, required)
Get ==
    /\ obj = "DirectedInputs"
    /\ \E key \in Keys, default \in Defaults, required \in BOOLEAN :
          Record(Op("get", <<key, default, required, NoFlags>>,
                    <<get(case_sensitive, Active, key, default, required)>>, ""))
    /\ UNCHANGED <<process, stdin, stdin_reads, store, inputs_cache, dic,
                   settings_inputs>>

\* DirectedInputs.freeze()
Freeze ==
    /\ obj = "DirectedInputs"
    /\ LET s == freeze(case_sensitive, Store)
       IN  /\ SetStore(s)
           /\ Record(Op("freeze", <<>>, <<s.heap[s.frozen]>>, ""))
    /\ UNCHANGED <<process, stdin, stdin_reads, inputs_cache, dic,
                   settings_inputs>>

\* DirectedInputs.thaw()
Thaw ==
    /\ obj = "DirectedInputs"
    /\ LET s == thaw(case_sensitive, Store)
       IN  /\ SetStore(s)
           /\ Record(Op("thaw", <<>>, <<s.heap[s.active]>>, ""))
    /\ UNCHANGED <<process, stdin, stdin_reads, inputs_cache, dic,
                   settings_inputs>>

\* DirectedInputs.shift()
Shift ==
    /\ obj = "DirectedInputs"
    /\ LET s == shift(case_sensitive, Store)
       IN  /\ SetStore(s)
           /\ Record(Op("shift", <<>>,
                        IF is_nothing(Frozen) THEN <<s.heap[s.frozen]>>
                        ELSE <<s.heap[s.active]>>, ""))
    /\ UNCHANGED <<process, stdin, stdin_reads, inputs_cache, dic,
                   settings_inputs>>

SetDic(d) ==
    /\ _inputs' = d.inputs
    /\ _frozen_inputs' = d.frozen

\* DirectedInputsClass.freeze_inputs()
FreezeInputs ==
    /\ obj = "DirectedInputsClass"
    /\ LET d == freeze_inputs(Dic)
       IN  SetDic(d) /\ Record(Op("freeze", <<>>, <<d.frozen>>, ""))
    /\ UNCHANGED <<process, stdin, stdin_reads, store, inputs_cache,
                   settings_inputs>>

\* DirectedInputsClass.thaw_inputs()
ThawInputs ==
    /\ obj = "DirectedInputsClass"
    /\ LET d == thaw_inputs(Dic)
       IN  SetDic(d) /\ Record(Op("thaw", <<>>, <<d.inputs>>, ""))
    /\ UNCHANGED <<process, stdin, stdin_reads, store, inputs_cache,
                   settings_inputs>>

\* DirectedInputsClass.shift_inputs()
ShiftInputs ==
    /\ obj = "DirectedInputsClass"
    /\ LET d == shift_inputs(Dic)
       IN  SetDic(d) /\ Record(Op("shift", <<>>,
                                  IF is_nothing(Frozen) THEN <<d.frozen>>
                                  ELSE <<d.inputs>>, ""))
    /\ UNCHANGED <<process, stdin, stdin_reads, store, inputs_cache,
                   settings_inputs>>

\* DirectedInputsSettings.get_input(key, default, required)
GetInput ==
    /\ obj = "DirectedInputsSettings"
    /\ \E key \in Keys, default \in Defaults, required \in BOOLEAN :
          LET r == get_input(settings_inputs, key, default, required, NoFlags)
          IN  Record(Op("get", <<key, default, required, NoFlags>>,
                        <<r.value>>, r.raised))
    /\ UNCHANGED <<process, stdin, stdin_reads, store, inputs_cache, dic,
                   settings_inputs>>

\* StdinSettingsSource(DirectedInputsSettings)()
StdinSource ==
    /\ obj = "DirectedInputsSettings"
    /\ LET r == StdinSettingsSource_call(override_stdin, stdin, stdin_reads)
       IN  /\ r.reads <= MaxReads
           /\ stdin' = r.stdin
           /\ stdin_reads' = r.reads
           /\ Record(Op("StdinSettingsSource", <<>>, <<r.d>>, r.raised))
    /\ UNCHANGED <<process, store, inputs_cache, dic, settings_inputs>>

\* a call of a method decorated with auto_directed_inputs(env, std), with
\* keyword arguments kwargs
Wrapper ==
    /\ obj = "DirectedInputsSettings"
    /\ \E env \in OptionalFlags, std \in OptionalFlags,
          kwargs \in {m \in InputDicts : DOMAIN m \subseteq Params} :
          LET effective_from_environment ==
                  IF env # <<>> THEN env[1] ELSE from_environment
              effective_from_stdin ==
                  IF std # <<>> THEN std[1] ELSE from_stdin
              r == wrapper([environ |-> environ, override |-> override_stdin,
                            kwargs |-> kwargs, dotenv |-> dotenv,
                            file_secrets |-> file_secrets,
                            from_environment |-> effective_from_environment,
                            from_stdin |-> effective_from_stdin,
                            stdin |-> stdin, reads |-> stdin_reads],
                           settings_inputs)
          IN  /\ r.reads <= MaxReads
              /\ stdin' = r.stdin
              /\ stdin_reads' = r.reads
              /\ Record(Op("wrapper",
                           <<effective_from_environment, effective_from_stdin,
                             kwargs>>,
                           <<r.combined, r.args>>, r.raised))
    /\ UNCHANGED <<process, store, inputs_cache, dic, settings_inputs>>

Next ==
    \/ SetInputs
    \/ ReadInputs
    \/ Get
    \/ Freeze
    \/ Thaw
    \/ Shift
    \/ FreezeInputs
    \/ ThawInputs
    \/ ShiftInputs
    \/ GetInput
    \/ StdinSource
    \/ Wrapper

Spec == Init /\ [][Next]_vars

(***************************************************************************)
(* The read operations on a store that holds values. get_input and         *)
(* decode_input are functions of self._inputs and of their arguments; no   *)
(* statement of the package fills that attribute, so this specification    *)
(* draws it from a bounded set, as a caller's assignment would set it. A   *)
(* DirectedInputs is filled through its inputs setter.                     *)
(***************************************************************************)
\* the texts stored under a key
StoredValues ==
    {"10", "abc", "true", "1.5", "", "null", "{}", "a: b: c",
     "{\"name\": \"test\"}", "name: test",
     "eyJuYW1lIjogInRlc3QifQ==", "bmFtZTogdGVzdA==", "bnVsbA=="}

StoredMaps == {EmptyMap} \cup {Map1("a", v) : v \in StoredValues}

CoercionFlags == [is_bool : BOOLEAN, is_integer : BOOLEAN, is_float : BOOLEAN]

InitReads ==
    /\ obj \in {"DirectedInputs", "DirectedInputsSettings"}
    /\ from_environment = TRUE
    /\ from_stdin = FALSE
    /\ environ = EmptyMap
    /\ override_stdin = FALSE
    /\ stdin = ""
    /\ stdin_reads = 0
    /\ dotenv = EmptyMap
    /\ file_secrets = EmptyMap
    /\ from_inputs = EmptyMap
    /\ case_sensitive \in (IF obj = "DirectedInputs" THEN BOOLEAN ELSE {FALSE})
    /\ heap = [r \in Refs |-> EmptyMap]
    /\ _active_state = "r1"
    /\ _frozen_state = "r2"
    /\ inputs_cache = <<>>
    /\ _inputs = EmptyMap
    /\ _frozen_inputs = EmptyMap
    /\ settings_inputs \in (IF obj = "DirectedInputsSettings" THEN StoredMaps
                            ELSE {EmptyMap})
    /\ last = NoOp

\* DirectedInputsSettings.get_input(key, default, required, is_bool,
\* is_integer, is_float)
GetInputCoerced ==
    /\ obj = "DirectedInputsSettings"
    /\ \E key \in Keys, default \in Defaults, required \in BOOLEAN,
          flags \in CoercionFlags :
          LET r == get_input(settings_inputs, key, default, required, flags)
          IN  Record(Op("get", <<key, default, required, flags>>,
                        <<r.value>>, r.raised))
    /\ UNCHANGED <<process, stdin, stdin_reads, store, inputs_cache, dic,
                   settings_inputs>>

\* the defaults a caller of decode_input passes
DecodeDefaults == {None, "{\"name\": \"test\"}"}

AllDecode == [decode_from_json |-> TRUE, decode_from_yaml |-> TRUE,
              decode_from_base64 |-> TRUE]

\* the decode flags and decode type of a call: any flags without a type,
\* each type with no flag or with every flag
DecodeChoices ==
    {<<f, None>> : f \in [decode_from_json : BOOLEAN,
                           decode_from_yaml : BOOLEAN,
                           decode_from_base64 : BOOLEAN]}
        \cup {<<f, t>> : f \in {NoDecode, AllDecode}, t \in DecodeTypes}

\* DirectedInputsSettings.decode_input(key, default, required, flags,
\* allow_none, decode_type)
DecodeInput ==
    /\ obj = "DirectedInputsSettings"
    /\ \E default \in DecodeDefaults, required \in BOOLEAN,
          c \in DecodeChoices, allow_none \in BOOLEAN :
          LET r == decode_input(settings_inputs, "a", default, required, c[1],
                                allow_none, c[2])
          IN  Record(Op("decode_input",
                        <<"a", default, required, c[1], allow_none, c[2]>>,
                        <<r.value, r.steps, r.flags>>, r.raised))
    /\ UNCHANGED <<process, stdin, stdin_reads, store, inputs_cache, dic,
                   settings_inputs>>

NextReads ==
    \/ SetInputs
    \/ Freeze
    \/ Get
    \/ GetInputCoerced
    \/ DecodeInput

SpecReads == InitReads /\ [][NextReads]_vars

(***************************************************************************)
(* Properties.                                                             *)
(***************************************************************************)
\* keys some source other than the initialization mapping supplies
SuppliedElsewhere ==
    DOMAIN Fold(environ) \cup DOMAIN json_loads(stdin).doc
        \cup DOMAIN dotenv \cup DOMAIN file_secrets

\* C1: a get of a key that only the initialization mapping supplies returns
\* the initialization value, whatever sources are enabled.
C1_InitValueReturned ==
    (last.op = "get" /\ last.raised = "") =>
        LET key == last.arg[1]
        IN  (key \in DOMAIN from_inputs /\ CaseFold(key) \notin SuppliedElsewhere)
                => last.ret = <<from_inputs[key]>>

\* the mapping the order "dotenv, file secrets, environment, stdin,
\* initialization values" gives when each later source overwrites the earlier
DocumentedOrderMerge(kwargs) ==
    Update(Update(Update(dotenv, file_secrets), Fold(environ)), kwargs)

\* C2: under the default ordering the merged mapping of a decorated call
\* holds, for every key that two or more enabled sources supply, the value of
\* the source latest in the order dotenv, file secrets, environment, stdin,
\* initialization values. (Checked on calls whose effective flags are the
\* defaults: environment enabled, stdin not.)
C2_LastWriteWinsInitLast ==
    (last.op = "wrapper" /\ last.raised = "" /\ last.arg[1] /\ ~last.arg[2]) =>
        LET kwargs   == last.arg[3]
            combined == last.ret[1]
            suppliers(k) ==
                {n \in {"dotenv", "file_secrets", "environ", "kwargs"} :
                    k \in DOMAIN (CASE n = "dotenv" -> dotenv
                                    [] n = "file_secrets" -> file_secrets
                                    [] n = "environ" -> Fold(environ)
                                    [] n = "kwargs" -> kwargs)}
        IN  \A k \in Params :
                Cardinality(suppliers(k)) >= 2 =>
                    /\ k \in DOMAIN combined
                    /\ combined[k] = DocumentedOrderMerge(kwargs)[k]

\* C3: freeze_inputs() directly followed by thaw_inputs(), begun with an empty
\* frozen mapping, leaves the active mapping it began with and an empty frozen
\* mapping.
C3_FreezeThawRoundTrip ==
    [][(/\ obj = "DirectedInputsClass"
        /\ last.op = "freeze" /\ is_nothing(last.frozen)
        /\ last'.op = "thaw")
            => (_inputs' = last.active /\ _frozen_inputs' = EmptyMap)]_vars

\* a thaw_inputs() that brought back the entries a freeze_inputs() had parked
C3_Witness ==
    /\ obj = "DirectedInputsClass"
    /\ last.op = "thaw"
    /\ is_nothing(last.active) /\ ~is_nothing(last.frozen)
    /\ \E k \in Keys : k \in DOMAIN _inputs

\* C4: two shifts in a row leave the (active, frozen) pair of before the first.
C4_ShiftTwiceRestores ==
    [][(last.op = "shift" /\ last'.op = "shift")
            => (Active' = last.active /\ Frozen' = last.frozen)]_vars

\* C5: a freeze with a non-empty frozen mapping changes neither mapping and
\* returns the frozen mapping; a freeze directly after a freeze changes
\* nothing and returns what the first returned.
C5_FreezeIdempotent ==
    [][/\ (last'.op = "freeze" /\ ~is_nothing(Frozen))
            => (Active' = Active /\ Frozen' = Frozen /\ last'.ret = <<Frozen>>)
       /\ (last.op = "freeze" /\ last'.op = "freeze")
            => (Active' = Active /\ Frozen' = Frozen /\ last'.ret = last.ret)]_vars

\* a freeze that found entries both in the frozen and in the active mapping
C5_Witness ==
    /\ last.op = "freeze"
    /\ ~is_nothing(last.frozen)
    /\ ~is_nothing(last.active)
    /\ last.ret = <<Frozen>>

\* C6: a DirectedInputs.freeze() called with an empty frozen mapping leaves
\* the active mapping empty and every entry it held in the frozen mapping,
\* which is also what it returns, whatever case_sensitive is.
C6_FreezeMovesEveryEntry ==
    (obj = "DirectedInputs" /\ last.op = "freeze" /\ is_nothing(last.frozen)) =>
        /\ is_nothing(Active)
        /\ \A k \in DOMAIN last.active :
              k \in DOMAIN Frozen /\ Frozen[k] = last.active[k]
        /\ last.ret = <<Frozen>>

\* the entries that are parked in the frozen mapping and that the active
\* mapping does not hold as well
Parked ==
    {k \in DOMAIN Frozen : ~(k \in DOMAIN Active /\ Active[k] = Frozen[k])}

\* C7: while entries are parked in the frozen mapping (from the freeze that
\* moved them to the next thaw) no read returns one of them: not the inputs
\* view, not get.
C7_FrozenNotVisible ==
    /\ (obj = "DirectedInputs" /\ last.op = "inputs" /\ last.raised = "") =>
          \A k \in Parked :
              ~(k \in DOMAIN last.ret[1] /\ last.ret[1][k] = Frozen[k])
    /\ (obj = "DirectedInputs" /\ last.op = "get") =>
          \A k \in Parked :
              (IF case_sensitive THEN last.arg[1] ELSE CaseFold(last.arg[1])) = k
                  => last.ret[1] # Frozen[k]

\* C8: within one process the standard-input stream is read at most once.
C8_StdinReadAtMostOnce == stdin_reads <= 1

\* C9: with OVERRIDE_STDIN set, no path reads standard input, and no resolved
\* mapping holds a key that only stdin supplies.
C9_OverrideNeverReads ==
    override_stdin =>
        /\ stdin_reads = 0
        /\ (last.op = "inputs" /\ last.raised = "") =>
              \A k \in DOMAIN last.ret[1] : last.ret[1][k] # "s"
        /\ (last.op \in {"wrapper", "StdinSettingsSource"} /\ last.raised = "") =>
              \A k \in DOMAIN last.ret[1] : last.ret[1][k] # "s"

\* C10: a source whose flag is false on the instance (or as passed to the
\* decorator) is not invoked and contributes no key: no environment variable
\* in the resolved mapping without from_environment, no read of stdin
\* without from_stdin.
C10_DisabledSourceSilent ==
    /\ (obj = "DirectedInputs" /\ ~from_stdin) => stdin_reads = 0
    /\ (obj = "DirectedInputs" /\ ~from_environment
            /\ last.op = "inputs" /\ last.raised = "") =>
          \A k \in DOMAIN last.ret[1] : last.ret[1][k] # "e"
    /\ (last.op = "wrapper" /\ last.raised = "" /\ ~last.arg[1]) =>
          \A k \in DOMAIN last.ret[1] : last.ret[1][k] # "e"
    /\ (last.op = "wrapper" /\ ~last.arg[2]) =>
          "StdinSettingsSource" \notin
              {settings_customise_sources[i] :
                  i \in 1..Len(settings_customise_sources)}

\* C11: a get with required=True raises the missing-required-input error,
\* naming the key, when the value resolved for the key (the default standing
\* in for an absent or empty value) is empty, and returns the resolved value
\* without that error when it is not: for get_input and DirectedInputs.get.
C11_RequiredRaisesWhenEmpty ==
    (last.op = "get" /\ last.arg[3] /\ last.arg[4] = NoFlags) =>
        LET key      == last.arg[1]
            default  == last.arg[2]
            k        == IF obj = "DirectedInputs" /\ case_sensitive
                        THEN key ELSE CaseFold(key)
            found    == IF k \in DOMAIN last.active THEN last.active[k]
                        ELSE default
            resolved == IF obj = "DirectedInputs" THEN found
                        ELSE IF is_nothing_value(found) THEN default
                        ELSE found
        IN  IF is_nothing_value(resolved)
            THEN last.raised =
                    "Required input " \o key \o " not passed from inputs"
            ELSE last.raised = "" /\ last.ret = <<resolved>>

\* the texts each coercion accepts, and the value it gives
Converted(flag, v) ==
    CASE flag = "is_bool" ->
            IF v \in {"true", "1"} THEN <<True>>
            ELSE IF v \in {"false", "0"} THEN <<False>>
            ELSE <<>>
      [] flag = "is_integer" ->
            IF v = "10" THEN <<"<int 10>">>
            ELSE IF v = "1" THEN <<"<int 1>">>
            ELSE IF v = "0" THEN <<"<int 0>">>
            ELSE <<>>
      [] flag = "is_float" ->
            IF v = "10" THEN <<"<float 10.0>">>
            ELSE IF v = "1.5" THEN <<"<float 1.5>">>
            ELSE <<>>

\* C12: get with one coercion flag returns a stored value that converts to
\* the requested type converted, and for a stored value that does not
\* convert raises an error that names the key and the raw value; it never
\* returns from such a value.
C12_CoercionOrError ==
    (obj = "DirectedInputsSettings" /\ last.op = "get") =>
        \A flag \in {"is_bool", "is_integer", "is_float"} :
            LET key == last.arg[1]
                onlyflag == [f \in {"is_bool", "is_integer", "is_float"}
                                |-> f = flag]
                stored == last.active[CaseFold(key)]
            IN  (/\ last.arg[4] = onlyflag
                 /\ CaseFold(key) \in DOMAIN last.active
                 /\ ~is_nothing_value(stored)) =>
                    IF Converted(flag, stored) # <<>>
                    THEN last.raised = "" /\ last.ret = Converted(flag, stored)
                    ELSE /\ last.raised # ""
                         /\ Contains(last.raised, "Input " \o key \o " ")
                         /\ Contains(last.raised, ": " \o stored)

\* the decode flags each decode type stands for
TagFlags(t) ==
    [decode_from_json |-> t \in {"JSONDecoded", "JSONAndBase64Decoded",
                                 "JSONWithoutBase64Decoded"},
     decode_from_yaml |-> t \in {"YAMLDecoded", "YAMLAndBase64Decoded",
                                 "YAMLWithoutBase64Decoded"},
     decode_from_base64 |-> t \in {"Base64Decoded", "JSONAndBase64Decoded",
                                   "YAMLAndBase64Decoded"}]

\* C13: when decode_input is given a decode type, its decode flags are those
\* of the type, whatever flags the caller passed: JSON (json), YAML (yaml),
\* Base64 (base64), JSON+Base64 (json, base64), YAML+Base64 (yaml, base64),
\* JSON-no-Base64 (json), YAML-no-Base64 (yaml); never json and yaml both.
C13_TagDeterminesFlags ==
    (last.op = "decode_input" /\ last.arg[6] # None) =>
        /\ last.ret[3] = TagFlags(last.arg[6])
        /\ ~(last.ret[3].decode_from_json /\ last.ret[3].decode_from_yaml)
        /\ last.arg[6] = "JSONAndBase64Decoded" =>
              last.ret[3] = [decode_from_json |-> TRUE,
                             decode_from_yaml |-> FALSE,
                             decode_from_base64 |-> TRUE]
        /\ last.arg[6] = "YAMLWithoutBase64Decoded" =>
              last.ret[3] = [decode_from_json |-> FALSE,
                             decode_from_yaml |-> TRUE,
                             decode_from_base64 |-> FALSE]

\* a call with the JSON decode type and every flag set by the caller, which
\* parsed the stored text as JSON only
C13_Witness ==
    /\ last.op = "decode_input"
    /\ last.arg[6] = "JSONDecoded"
    /\ last.arg[4] = AllDecode
    /\ last.ret[2] = <<"decode_json">>
    /\ last.ret[1] = "<dict {'name': 'test'}>"

\* C14: for a structure s stored as base64(json(s)), decode_input with
\* Base64 and JSON decoding returns s, having applied the Base64 step and
\* the JSON parse once each, in this order.
C14_Base64JsonRoundTrip ==
    (/\ last.op = "decode_input"
     /\ "a" \in DOMAIN last.active
     /\ last.active["a"] = "eyJuYW1lIjogInRlc3QifQ=="
     /\ last.arg[2] # last.active["a"]
     /\ \/ last.arg[6] = "JSONAndBase64Decoded"
        \/ last.arg[6] = None /\ last.arg[4].decode_from_json
              /\ last.arg[4].decode_from_base64
              /\ ~last.arg[4].decode_from_yaml) =>
        /\ last.raised = ""
        /\ last.ret[1] = "<dict {'name': 'test'}>"
        /\ last.ret[2] = <<"base64_decode", "decode_json">>

\* C15: on every path that reads stdin, a text that is not empty and is no
\* JSON document ends the operation with an error that names stdin and
\* holds the text read; no such read ends without an error.
C15_DecodeFailureReported ==
    [][(/\ stdin_reads' = stdin_reads + 1
        /\ stdin # ""
        /\ ~json_loads(stdin).ok)
            => (/\ last'.raised # ""
                /\ Contains(last'.raised, "stdin")
                /\ Contains(last'.raised, stdin))]_vars

\* at most one of the active and the frozen mapping holds an entry
AtMostOneNonEmpty == is_nothing(Active) \/ is_nothing(Frozen)

\* C16: in every state reached by construction and any sequence of freeze,
\* thaw, shift, get and setting inputs, at most one of the active and the
\* frozen mapping is non-empty.
C16_AtMostOneNonEmpty == AtMostOneNonEmpty

\* C16 as amended: at most one of the two mappings is non-empty after
\* construction, and freeze, thaw, shift and the reads keep it so; only
\* setting inputs can lead to a state where both are non-empty.
C16_OnlySetterFillsBoth ==
    /\ AtMostOneNonEmpty
    /\ [][(AtMostOneNonEmpty /\ last'.op # "inputs.setter")
              => AtMostOneNonEmpty']_vars

\* a thaw that merged the frozen entries into an active mapping the setter
\* had filled after the freeze, and left the frozen mapping empty
C16_Witness ==
    /\ obj = "DirectedInputs"
    /\ last.op = "thaw"
    /\ ~is_nothing(last.active) /\ ~is_nothing(last.frozen)
    /\ ~is_nothing(Active) /\ is_nothing(Frozen)

\* C17: a thaw called with both mappings non-empty empties the frozen
\* mapping and leaves an active mapping over the keys of both: a key of the
\* active mapping alone keeps its value, a key of the frozen mapping alone
\* gets the frozen value, and a key of both is resolved by the type of its
\* values (the values of the model are texts, for which the frozen value
\* wins).
C17_ThawMergesBoth ==
    (last.op = "thaw" /\ ~is_nothing(last.active) /\ ~is_nothing(last.frozen)) =>
        /\ is_nothing(Frozen)
        /\ DOMAIN Active = DOMAIN last.active \cup DOMAIN last.frozen
        /\ \A k \in DOMAIN Active :
              Active[k] = IF k \in DOMAIN last.frozen THEN last.frozen[k]
                          ELSE last.active[k]

\* the value get_input resolves for key "a": the stored value, or the
\* default when none is stored or the stored value is empty
Resolved ==
    IF "a" \in DOMAIN last.active /\ ~is_nothing_value(last.active["a"])
    THEN last.active["a"] ELSE last.arg[2]

\* a decode_input call that got past get_input: the key is not required or
\* the resolved value is not empty
Decoding ==
    /\ last.op = "decode_input"
    /\ ~(last.arg[3] /\ is_nothing_value(Resolved))

\* the steps of a call as a set
StepsTaken == {last.ret[2][i] : i \in 1..Len(last.ret[2])}

\* C18: decode_input takes no decode step and returns the resolved value
\* unchanged when that value is absent or empty or equals the default,
\* whatever the decode flags; in every other case each enabled decode step
\* is applied.
C18_SkipOrEveryStep ==
    Decoding =>
        IF is_nothing_value(Resolved) \/ Resolved = last.arg[2]
        THEN last.raised = "" /\ last.ret[2] = <<>> /\ last.ret[1] = Resolved
        ELSE last.raised = "" =>
                /\ last.ret[3].decode_from_base64 => "base64_decode" \in StepsTaken
                /\ last.ret[3].decode_from_yaml => "decode_yaml" \in StepsTaken
                /\ last.ret[3].decode_from_json => "decode_json" \in StepsTaken

\* C18 as amended: as C18, but in the other cases the JSON parse is applied
\* when JSON is enabled and YAML is not: with both enabled the YAML parse
\* takes its place.
C18_SkipOrStepsYamlFirst ==
    Decoding =>
        IF is_nothing_value(Resolved) \/ Resolved = last.arg[2]
        THEN last.raised = "" /\ last.ret[2] = <<>> /\ last.ret[1] = Resolved
        ELSE /\ (last.ret[3] # NoDecode) => last.ret[2] # <<>>
             /\ last.raised = "" =>
                /\ last.ret[3].decode_from_base64 => "base64_decode" \in StepsTaken
                /\ last.ret[3].decode_from_yaml => "decode_yaml" \in StepsTaken
                /\ (last.ret[3].decode_from_json /\ ~last.ret[3].decode_from_yaml)
                      => "decode_json" \in StepsTaken

\* a call with JSON decoding whose stored value, a JSON text, equals the
\* default: it is returned as it is
C18_Witness ==
    /\ last.op = "decode_input"
    /\ last.ret[3].decode_from_json
    /\ "a" \in DOMAIN last.active
    /\ last.active["a"] = "{\"name\": \"test\"}"
    /\ last.arg[2] = last.active["a"]
    /\ last.ret[1] = last.active["a"] /\ last.ret[2] = <<>>

\* a call that decoded with one parser and no Base64 step: JSON or YAML
OneParse ==
    /\ Decoding /\ last.raised = "" /\ last.ret[2] # <<>>
    /\ ~last.ret[3].decode_from_base64
    /\ last.ret[3].decode_from_json # last.ret[3].decode_from_yaml

\* what that parser makes of the stored text
Parsed ==
    IF last.ret[3].decode_from_yaml THEN decode_yaml(last.active["a"]).value
    ELSE decode_json(last.active["a"]).value

\* C19: with allow_none false, a call whose decoding yields an empty or null
\* result (null, an empty text, mapping or sequence) returns the default,
\* never that result.
C19_EmptyResultGivesDefault ==
    /\ (OneParse /\ ~last.arg[5] /\ is_nothing_value(Parsed))
            => last.ret[1] = last.arg[2]
    /\ (Decoding /\ last.raised = "" /\ last.ret[2] # <<>> /\ ~last.arg[5]
            /\ is_nothing_value(last.ret[1]))
            => last.ret[1] = last.arg[2]

\* C19 as amended: with allow_none false, a call whose decoding yields null
\* returns the default; an empty text, mapping or sequence is returned as
\* decoded.
C19_NullResultGivesDefault ==
    /\ (OneParse /\ ~last.arg[5]) =>
            last.ret[1] = IF Parsed = None THEN last.arg[2] ELSE Parsed
    /\ (Decoding /\ last.raised = "" /\ last.ret[2] # <<>> /\ ~last.arg[5]
            /\ last.ret[1] = None)
            => last.arg[2] = None

\* a call that parsed the stored JSON text "null" with allow_none false and
\* returned the default it was given
C19_Witness ==
    /\ OneParse /\ ~last.arg[5]
    /\ last.active["a"] = "null"
    /\ last.arg[2] = "{\"name\": \"test\"}"
    /\ last.ret[1] = last.arg[2]

=============================================================================
